---- MODULE Spec2Model ----
(***************************************************************************)
(* Model of node/remote/node.go (package remote) and types/dchain.go:      *)
(* chunked genesis reconstruction, paged validator collection, block       *)
(* transaction routing and the synthesis of the presentation transaction.  *)
(***************************************************************************)
EXTENDS Integers, Sequences, FiniteSets, TLC

VARIABLES
    \* ---- getGenesisChunksStartingFrom (node.go:105-126) ----
    gpc,        \* "idle" | "call" | "returned" | "panic"
    gid,        \* id argument of the innermost active call
    gframes,    \* decoded bz of every suspended caller, outermost first
    greqs,      \* ids passed to client.GenesisChunked, in call order
    gresps,     \* what the node answered, in call order
    gret,       \* returned []byte of the outermost call
    gerr,       \* returned error of the outermost call
    \* ---- Validators (node.go:166-187) ----
    vpc,        \* "idle" | "loop" | "returned"
    nodeVals,   \* validator list the node holds for the height
    page,       \* local variable page
    lastReq,    \* arguments of the last client.Validators call
    vcalls,     \* number of client.Validators calls issued
    vals,       \* local variable vals (Validators, Count, Total)
    vhonest,    \* every answer so far was the node's true page
    vret,       \* returned *ResultValidators
    verr,       \* returned error
    \* ---- Txs (node.go:228-249) ----
    tpc,        \* "idle" | "loop" | "returned" | "panic"
    block,      \* the block argument
    ti,         \* loop index i
    txResponses,\* local slice txResponses
    tcalls,     \* HandleVPTxs / Tx calls made, in order
    tret,       \* returned slice
    terr,       \* returned error
    \* ---- HandleVPTxs called twice (node.go:251-355) ----
    hpc,        \* "idle" | "first" | "second" | "done"
    hin1, hout1,\* arguments and outcome of the first call
    hin2, hout2 \* arguments and outcome of the second call

gvars == <<gpc, gid, gframes, greqs, gresps, gret, gerr>>
vvars == <<vpc, nodeVals, page, lastReq, vcalls, vals, vhonest, vret, verr>>
tvars == <<tpc, block, ti, txResponses, tcalls, tret, terr>>
hvars == <<hpc, hin1, hout1, hin2, hout2>>
vars  == <<gvars, vvars, tvars, hvars>>

----------------------------------------------------------------------------
(* Bounds *)

MaxTotal == 3      \* largest totalChunks the node reports
MaxId == 3         \* largest chunk id the model lets the recursion reach
MaxVals == 250     \* largest validator set the node holds
MaxPage == 5       \* page numbers from MaxPage on are identified
MaxDisc == 2       \* most disclosures in a presentation
MaxTxs == 3        \* most transactions in a block

----------------------------------------------------------------------------
(* Go values *)

\* a nil []byte and a non-nil []byte
NilBytes == [isNil |-> TRUE, b |-> <<>>]
Bytes(s) == [isNil |-> FALSE, b |-> s]

NoError == [kind |-> "nil"]

RECURSIVE Flatten(_)
Flatten(ss) == IF ss = <<>> THEN <<>> ELSE Head(ss) \o Flatten(Tail(ss))

\* append(a, b...) on byte slices
Append2(a, b) == Bytes(a.b \o b.b)

----------------------------------------------------------------------------
(* encoding/base64 StdEncoding.DecodeString.  A string is a sequence of    *)
(* characters; an alphabet character is written as its index 0..63 in the  *)
(* standard alphabet, and PadChar is '='.                                  *)

PadChar == 64

IsSextet(c) == c \in 0..63

\* the 1..3 bytes of one 4-character quantum
Quantum(q) ==
    LET b0 == q[1] * 4 + (q[2] \div 16)
        b1 == (q[2] % 16) * 16 + (q[3] \div 4)
        b2 == (q[3] % 4) * 64 + q[4]
    IN  IF q[3] = PadChar THEN <<b0>>
        ELSE IF q[4] = PadChar THEN <<b0, b1>>
        ELSE <<b0, b1, b2>>

\* padding is legal only as "xx==" or "xxx=" in the final quantum
QuantumOk(q, isFinal) ==
    /\ IsSextet(q[1]) /\ IsSextet(q[2])
    /\ \/ IsSextet(q[3]) /\ IsSextet(q[4])
       \/ isFinal /\ IsSextet(q[3]) /\ q[4] = PadChar
       \/ isFinal /\ q[3] = PadChar /\ q[4] = PadChar

StdValid(s) ==
    /\ Len(s) % 4 = 0
    /\ \A k \in 0..((Len(s) \div 4) - 1) :
          QuantumOk(SubSeq(s, 4 * k + 1, 4 * k + 4), 4 * k + 4 = Len(s))

RECURSIVE StdDecodeBytes(_)
StdDecodeBytes(s) ==
    IF Len(s) < 4 THEN <<>>
    ELSE Quantum(SubSeq(s, 1, 4)) \o StdDecodeBytes(SubSeq(s, 5, Len(s)))

\* (bz, err) of base64.StdEncoding.DecodeString(s)
StdDecodeString(s) ==
    IF StdValid(s) THEN [bz |-> Bytes(StdDecodeBytes(s)), ok |-> TRUE]
    ELSE [bz |-> NilBytes, ok |-> FALSE]

\* chunk payloads the node may serve: "e30=" ({}), "QQ==" (A), "QUJD" (ABC),
\* and "QQ=" which is not valid base64
ChunkData == { <<30, 55, 52, 64>>, <<16, 16, 64, 64>>, <<16, 20, 9, 3>>,
               <<16, 16, 64>> }

----------------------------------------------------------------------------
(* getGenesisChunksStartingFrom *)

\* answers of client.GenesisChunked: an error comes with a nil result
ChunkResponses ==
    {[ok |-> FALSE]} \cup
    {[ok |-> TRUE, TotalChunks |-> t, Data |-> d] : t \in 0..MaxTotal, d \in ChunkData}

GetError(id)        == [kind |-> "getting genesis chunk", id |-> id]
DecodeError(id, t)  == [kind |-> "decoding genesis chunk", id |-> id, total |-> t]

\* id == uint(res.TotalChunks-1); for TotalChunks <= 0 the conversion wraps
\* to a value of at least 2^63, which no id the recursion reaches equals
IsLastChunk(id, total) == IF total - 1 >= 0 THEN id = total - 1 ELSE FALSE

\* as Unwind, each caller returning append(nextChunk, bz...)
RECURSIVE UnwindSwapped(_, _)
UnwindSwapped(frames, ret) ==
    IF frames = <<>> THEN ret
    ELSE UnwindSwapped(SubSeq(frames, 1, Len(frames) - 1),
                       Append2(ret, frames[Len(frames)]))

\* the returns of the suspended callers, innermost first: each one returns
\* append(bz, nextChunk...)
RECURSIVE Unwind(_, _)
Unwind(frames, ret) ==
    IF frames = <<>> THEN ret
    ELSE Unwind(SubSeq(frames, 1, Len(frames) - 1),
                Append2(frames[Len(frames)], ret))

\* one activation of getGenesisChunksStartingFrom(gid), the node answering r
getGenesisChunksStartingFrom(r) ==
    /\ gpc = "call"
    /\ gid <= MaxId
    /\ greqs' = Append(greqs, gid)
    /\ gresps' = Append(gresps, r)
    /\ IF ~r.ok
       THEN \* line 108 reads res.TotalChunks of the nil res
            /\ gpc' = "panic"
            /\ UNCHANGED <<gid, gframes, gret, gerr>>
       ELSE LET dec == StdDecodeString(r.Data) IN
            IF ~dec.ok
            THEN \* line 113, then line 122 in every caller
                 /\ gpc' = "returned"
                 /\ gret' = NilBytes
                 /\ gerr' = DecodeError(gid, r.TotalChunks)
                 /\ gframes' = <<>>
                 /\ UNCHANGED gid
            ELSE IF IsLastChunk(gid, r.TotalChunks)
            THEN \* line 117, then line 125 in every caller
                 /\ gpc' = "returned"
                 /\ gret' = Unwind(gframes, dec.bz)
                 /\ gerr' = NoError
                 /\ gframes' = <<>>
                 /\ UNCHANGED gid
            ELSE \* line 120
                 /\ gframes' = Append(gframes, dec.bz)
                 /\ gid' = gid + 1
                 /\ UNCHANGED <<gpc, gret, gerr>>
    /\ UNCHANGED <<vvars, tvars, hvars>>

----------------------------------------------------------------------------
(* Validators *)

PerPage == 100

Min(a, b) == IF a < b THEN a ELSE b

\* the height argument
ValHeights == {1, 2}

\* the node's page p of vs
PageOf(vs, p, perPage) ==
    SubSeq(vs, (p - 1) * perPage + 1, Min(p * perPage, Len(vs)))

\* answers of client.Validators to the request (p, perPage): an error, the
\* node's true page, or that page's validators with a count of 0 or a total
\* other than the size of the set
ValidatorResponses(p, perPage) ==
    LET slice == PageOf(nodeVals, p, perPage)
        T == Len(nodeVals)
    IN  {[ok |-> FALSE]} \cup
        {[ok |-> TRUE, Validators |-> slice, Count |-> c, Total |-> t] :
            c \in {Len(slice), 0}, t \in {T, T \div 2}}

IsTruePage(r, p, perPage) ==
    /\ r.ok
    /\ r.Validators = PageOf(nodeVals, p, perPage)
    /\ r.Count = Len(r.Validators)
    /\ r.Total = Len(nodeVals)

NilResult == [isNil |-> TRUE]
Result(v) == [isNil |-> FALSE, v |-> v]

\* page++, pages from MaxPage on being identified (the loop condition does
\* not read page)
NextPage(p) == IF p < MaxPage THEN p + 1 ELSE p

\* the call counter, counting up to MaxPage - 1 as page does up to MaxPage
CountCall(n) == IF n + 1 < MaxPage THEN n + 1 ELSE n

\* stop = vals.Count == vals.Total
StopCondition(v) == v.Count = v.Total

\* as Accumulate, with vals.Count = result.Count
AccumulateLastCount(v, r) ==
    [v EXCEPT !.Validators = v.Validators \o r.Validators,
              !.Count = r.Count,
              !.Total = r.Total]

\* lines 179-181: append the page, add its count, adopt its total
Accumulate(v, r) ==
    [v EXCEPT !.Validators = v.Validators \o r.Validators,
              !.Count = v.Count + r.Count,
              !.Total = r.Total]

\* one iteration of the loop of Validators, the node answering r; the
\* iteration that sets stop also returns vals
ValidatorsPage(r) ==
    /\ vpc = "loop"
    /\ lastReq' = [page |-> page, perPage |-> PerPage]
    /\ vcalls' = CountCall(vcalls)
    /\ vhonest' = (vhonest /\ IsTruePage(r, page, PerPage))
    /\ IF ~r.ok
       THEN /\ vpc' = "returned"
            /\ vret' = NilResult
            /\ verr' = [kind |-> "rpc", page |-> page]
            /\ UNCHANGED <<vals, page>>
       ELSE LET v == Accumulate(vals, r)
            IN  /\ vals' = v
                /\ page' = NextPage(page)
                /\ IF StopCondition(v)
                   THEN vpc' = "returned" /\ vret' = Result(v) /\ verr' = NoError
                   ELSE UNCHANGED <<vpc, vret, verr>>
    /\ UNCHANGED <<nodeVals, gvars, tvars, hvars>>

----------------------------------------------------------------------------
(* JSON documents, as encoding/json decodes them into interface{} *)

JStr(x)  == [t |-> "string", v |-> x]
JNum(n)  == [t |-> "number", v |-> n]
JArr(a)  == [t |-> "array", v |-> a]
JNull    == [t |-> "null", v |-> 0]
JObject  == [t |-> "object", v |-> 0]
JInvalid == [t |-> "invalid", v |-> 0]     \* bytes that are not JSON

(* A segment of the combined format: enc says whether the segment is valid  *)
(* unpadded base64url, doc is the JSON document its decoded bytes spell.    *)
Seg(enc, doc) == [enc |-> enc, doc |-> doc]

VP_TYPE == "/dchain.tx.v1.MsgVerifiablePresentation"

TokNameAlice == Seg(TRUE, JArr(<<JStr("s1"), JStr("name"), JStr("Alice")>>))
TokNameBob   == Seg(TRUE, JArr(<<JStr("s2"), JStr("name"), JStr("Bob")>>))
TokAge       == Seg(TRUE, JArr(<<JStr("s3"), JStr("age"), JNum(30)>>))
TokType      == Seg(TRUE, JArr(<<JStr("s4"), JStr("@type"), JStr("x")>>))
TokEmpty     == Seg(TRUE, JArr(<<>>))
TokOne       == Seg(TRUE, JArr(<<JStr("s5")>>))
TokTwo       == Seg(TRUE, JArr(<<JStr("s6"), JStr("name")>>))
TokFour      == Seg(TRUE, JArr(<<JStr("s7"), JStr("age"), JNum(31), JStr("extra")>>))
TokNonString == Seg(TRUE, JArr(<<JStr("s8"), JNum(7), JStr("v")>>))
TokNull      == Seg(TRUE, JNull)
TokObject    == Seg(TRUE, JObject)
TokBadEnc    == Seg(FALSE, JInvalid)

Tokens == {TokNameAlice, TokNameBob, TokAge, TokType, TokEmpty, TokOne, TokTwo,
           TokFour, TokNonString, TokNull, TokObject, TokBadEnc}

\* the issuer-signed JWT ("a.b.c") and an empty holder binding
SegJWT    == Seg(FALSE, JInvalid)
SegHolder == Seg(TRUE, JInvalid)

\* all sequences over S of length at most n
SeqsUpTo(S, n) == UNION {[1..k -> S] : k \in 0..n}

\* raw transaction bytes, as their "~"-separated segments
RawTx(ds) == <<SegJWT>> \o ds \o <<SegHolder>>

\* sdjwt ParseCombinedFormatForPresentation: the segments between the first
\* and the last
ParseCombinedFormatForPresentation(txn) ==
    [SDJWT |-> txn[1],
     Disclosures |-> IF Len(txn) > 2 THEN SubSeq(txn, 2, Len(txn) - 1) ELSE <<>>,
     HolderBinding |-> IF Len(txn) > 1 THEN txn[Len(txn)] ELSE SegHolder]

----------------------------------------------------------------------------
(* HandleVPTxs *)

\* keys of the claim sets the model builds, in the byte order json.Marshal
\* writes map keys in
KeyOrder == <<"@type", "age", "name">>

\* as MapPut, keeping the value a key already has
MapPutIfAbsent(m, k, v) ==
    [x \in (DOMAIN m) \cup {k} |-> IF x \in DOMAIN m THEN m[x] ELSE v]

\* m[k] = v on a Go map
MapPut(m, k, v) == [x \in (DOMAIN m) \cup {k} |-> IF x = k THEN v ELSE m[x]]

EmptyMap == [x \in {} |-> JNull]

\* json.Unmarshal(decoded, &disclosureArr) with disclosureArr []interface{}
UnmarshalArray(doc) ==
    IF doc.t = "array" THEN [ok |-> TRUE, arr |-> doc.v]
    ELSE IF doc.t = "null" THEN [ok |-> TRUE, arr |-> <<>>]
    ELSE [ok |-> FALSE, arr |-> <<>>]

\* the statement disclosedJson[disclosureArr[1].(string)] = disclosureArr[2]
StoreDisclosure(m, arr) ==
    IF Len(arr) < 2 THEN [kind |-> "panic", why |-> "index out of range"]
    ELSE IF arr[2].t # "string" THEN [kind |-> "panic", why |-> "interface conversion"]
    ELSE IF Len(arr) < 3 THEN [kind |-> "panic", why |-> "index out of range"]
    ELSE [kind |-> "ok", m |-> MapPut(m, arr[2].v, arr[3])]

\* the loop over parsed.Disclosures, from disclosure k on
RECURSIVE CompileDisclosed(_, _, _)
CompileDisclosed(ds, k, m) ==
    IF k > Len(ds) THEN [kind |-> "ok", m |-> m]
    ELSE IF ~ds[k].enc
    THEN [kind |-> "error", err |-> [kind |-> "failed to decode disclosure", index |-> k]]
    ELSE LET u == UnmarshalArray(ds[k].doc) IN
         IF ~u.ok
         THEN [kind |-> "error",
               err |-> [kind |-> "failed to unmarshal disclosure array", index |-> k]]
         ELSE LET st == StoreDisclosure(m, u.arr) IN
              IF st.kind = "panic" THEN st
              ELSE CompileDisclosed(ds, k + 1, st.m)

\* json.Marshal of a map: the entries in ascending key order
Marshal(m) ==
    LET ks == SelectSeq(KeyOrder, LAMBDA k : k \in DOMAIN m)
    IN  [i \in 1..Len(ks) |-> <<ks[i], m[ks[i]]>>]

\* binary.LittleEndian.PutUint64 on n bytes; a salt byte is written
\* <<"byte", b>>
RECURSIVE LittleEndian(_, _)
LittleEndian(x, n) ==
    IF n = 0 THEN <<>> ELSE <<(<<"byte", x % 256>>)>> \o LittleEndian(x \div 256, n - 1)

\* as Salt, on a single byte
SaltOneByte(height) == LittleEndian(height, 1)

\* lines 314-315: salt := make([]byte, 8); PutUint64(salt, uint64(height))
Salt(height) == LittleEndian(height, 8)

\* sha256.Sum256, taken to be collision-free, and its "%X" rendering
Sum256(bytes) == [sha256 |-> bytes]
HexUpper(h) == [hex |-> h]

\* sdktypes.ValAddressFromHex(addr.String()): an empty address is an error
ValAddressFromHex(addr) ==
    IF addr = <<>> THEN [ok |-> FALSE, bech32 |-> <<>>]
    ELSE [ok |-> TRUE, bech32 |-> addr]

Heights == {1, 2, 257}
ProposerAddresses == {<<>>, <<171, 205>>}

NilTx == [isNil |-> TRUE]

\* HandleVPTxs(txn, block) for a block with the given header
HandleVPTxs(txn, header) ==
    LET parsed == ParseCombinedFormatForPresentation(txn)
        comp == CompileDisclosed(parsed.Disclosures, 1, EmptyMap)
    IN  IF comp.kind = "panic" THEN [kind |-> "panic", tx |-> NilTx, err |-> NoError]
        ELSE IF comp.kind = "error" THEN [kind |-> "error", tx |-> NilTx, err |-> comp.err]
        ELSE LET disclosedJson == MapPut(comp.m, "@type", JStr(VP_TYPE))
                 jsonBytes == Marshal(disclosedJson)
                 finalBytes == jsonBytes \o Salt(header.Height)
                 hash == Sum256(finalBytes)
                 valAddr == ValAddressFromHex(header.ProposerAddress)
             IN  IF ~valAddr.ok
                 THEN [kind |-> "error", tx |-> NilTx,
                       err |-> [kind |-> "decoding address from hex string failed"]]
                 ELSE [kind |-> "ok", err |-> NoError,
                       tx |-> [isNil |-> FALSE,
                               TypeUrl |-> VP_TYPE,
                               Value |-> jsonBytes,
                               Memo |-> "Verifiable Presentation",
                               TimeoutHeight |-> header.Height,
                               Signatures |-> <<>>,
                               SignerInfos |-> <<>>,
                               EventType |-> "message",
                               Proposer |-> valAddr.bech32,
                               Height |-> header.Height,
                               TxHash |-> HexUpper(hash),
                               GasWanted |-> 0,
                               GasUsed |-> 0]]

Headers == [Height : Heights, ProposerAddress : ProposerAddresses]

NoHeader  == [Height |-> 0, ProposerAddress |-> <<>>]
NoInput   == [txn |-> <<SegJWT>>, header |-> NoHeader]
NoOutcome == [kind |-> "none", tx |-> NilTx, err |-> NoError]

\* the arguments of a call of HandleVPTxs
VPInputs == [txn : {RawTx(ds) : ds \in SeqsUpTo(Tokens, MaxDisc)}, header : Headers]

\* presentations a second call may be given besides the first one's
RerunTxns == {RawTx(<<>>), RawTx(<<TokNameAlice>>), RawTx(<<TokNameBob, TokNameAlice>>)}

SecondInputs(in1) ==
    {[txn |-> x, header |-> [in1.header EXCEPT !.Height = h]] :
        x \in {in1.txn} \cup RerunTxns, h \in Heights}

HandleVPTxsFirst ==
    /\ hpc = "first"
    /\ hout1' = HandleVPTxs(hin1.txn, hin1.header)
    /\ hpc' = "second"
    /\ UNCHANGED <<hin1, hin2, hout2, gvars, vvars, tvars>>

HandleVPTxsSecond ==
    /\ hpc = "second"
    /\ \E in2 \in SecondInputs(hin1) :
          /\ hin2' = in2
          /\ hout2' = HandleVPTxs(in2.txn, in2.header)
    /\ hpc' = "done"
    /\ UNCHANGED <<hin1, hout1, gvars, vvars, tvars>>

----------------------------------------------------------------------------
(* Tx and Txs *)

\* tmTx.Hash() and its "%X" rendering
TxHashOf(tmTx) == HexUpper(Sum256(tmTx))

\* the transaction the REST endpoint holds under a hash
DecodedTx(hash) == [isNil |-> FALSE, TxHash |-> hash, Decoded |-> TRUE]

BlockTokens == {TokNameAlice, TokTwo, TokBadEnc}
BlockTxns == {RawTx(ds) : ds \in SeqsUpTo(BlockTokens, 1)} \cup {<<SegJWT>>}
Blocks == [Txs : SeqsUpTo(BlockTxns, MaxTxs), Header : Headers]

NoBlock == [Txs |-> <<>>, Header |-> NoHeader]

\* a nil and a non-nil []*types.Transaction
NilSlice == [isNil |-> TRUE, s |-> <<>>]
Slice(x) == [isNil |-> FALSE, s |-> x]

\* as IsPresentationPosition, with i <= 1
IsPresentationPositionUpToOne(i) == i <= 1

\* line 233: i == 0
IsPresentationPosition(i) == i = 0

\* as TxsPresentation, an error of HandleVPTxs leaving the transaction's
\* entry nil and the loop going on
TxsPresentationSkipping ==
    /\ tpc = "loop"
    /\ ti < Len(block.Txs)
    /\ IsPresentationPosition(ti)
    /\ tcalls' = Append(tcalls, [fn |-> "HandleVPTxs", pos |-> ti, arg |-> block.Txs[ti + 1]])
    /\ LET out == HandleVPTxs(block.Txs[ti + 1], block.Header) IN
       IF out.kind = "panic"
       THEN tpc' = "panic" /\ UNCHANGED <<ti, txResponses, tret, terr>>
       ELSE /\ txResponses' = [txResponses EXCEPT ![ti + 1] = out.tx]
            /\ ti' = ti + 1
            /\ UNCHANGED <<tpc, tret, terr>>
    /\ UNCHANGED <<block, gvars, vvars, hvars>>

\* the iteration of the loop of Txs for the presentation position
TxsPresentation ==
    /\ tpc = "loop"
    /\ ti < Len(block.Txs)
    /\ IsPresentationPosition(ti)
    /\ tcalls' = Append(tcalls, [fn |-> "HandleVPTxs", pos |-> ti, arg |-> block.Txs[ti + 1]])
    /\ LET out == HandleVPTxs(block.Txs[ti + 1], block.Header) IN
       IF out.kind = "panic"
       THEN tpc' = "panic" /\ UNCHANGED <<ti, txResponses, tret, terr>>
       ELSE IF out.kind = "error"
       THEN /\ tpc' = "returned" /\ tret' = NilSlice /\ terr' = out.err
            /\ UNCHANGED <<ti, txResponses>>
       ELSE /\ txResponses' = [txResponses EXCEPT ![ti + 1] = out.tx]
            /\ ti' = ti + 1
            /\ UNCHANGED <<tpc, tret, terr>>
    /\ UNCHANGED <<block, gvars, vvars, hvars>>

\* an iteration of the loop of Txs for any other position; found says whether the REST
\* endpoint answers the lookup
TxsLookup(found) ==
    /\ tpc = "loop"
    /\ ti < Len(block.Txs)
    /\ ~IsPresentationPosition(ti)
    /\ LET hash == TxHashOf(block.Txs[ti + 1]) IN
       /\ tcalls' = Append(tcalls, [fn |-> "Tx", pos |-> ti, arg |-> hash])
       /\ IF ~found
          THEN /\ tpc' = "returned" /\ tret' = NilSlice
               /\ terr' = [kind |-> "request failed", hash |-> hash]
               /\ UNCHANGED <<ti, txResponses>>
          ELSE /\ txResponses' = [txResponses EXCEPT ![ti + 1] = DecodedTx(hash)]
               /\ ti' = ti + 1
               /\ UNCHANGED <<tpc, tret, terr>>
    /\ UNCHANGED <<block, gvars, vvars, hvars>>

\* the loop is over: return txResponses, nil
TxsReturn ==
    /\ tpc = "loop"
    /\ ti = Len(block.Txs)
    /\ tpc' = "returned"
    /\ tret' = Slice(txResponses)
    /\ terr' = NoError
    /\ UNCHANGED <<block, ti, txResponses, tcalls, gvars, vvars, hvars>>

----------------------------------------------------------------------------
(* Specifications: one per entry point *)

\* getGenesisChunked calls getGenesisChunksStartingFrom(0)
InitGenesis ==
    /\ gpc = "call" /\ gid = 0 /\ gframes = <<>>
    /\ greqs = <<>> /\ gresps = <<>>
    /\ gret = NilBytes /\ gerr = NoError
    /\ vpc = "idle"
    /\ nodeVals = <<>>
    /\ vals = [BlockHeight |-> 0, Validators |-> <<>>, Count |-> 0, Total |-> 0]
    /\ page = 1
    /\ lastReq = [page |-> 0, perPage |-> 0]
    /\ vcalls = 0
    /\ vhonest = TRUE
    /\ vret = NilResult /\ verr = NoError
    /\ tpc = "idle" /\ block = NoBlock /\ ti = 0 /\ txResponses = <<>>
    /\ tcalls = <<>> /\ tret = NilSlice /\ terr = NoError
    /\ hpc = "idle"
    /\ hin1 = NoInput /\ hout1 = NoOutcome /\ hin2 = NoInput /\ hout2 = NoOutcome

NextGenesis == \E r \in ChunkResponses : getGenesisChunksStartingFrom(r)
SpecGenesis ==
    /\ InitGenesis
    /\ [][NextGenesis]_vars

\* Validators(height) is called, the node holding a set of validators
InitValidators ==
    /\ gpc = "idle" /\ gid = 0 /\ gframes = <<>>
    /\ greqs = <<>> /\ gresps = <<>>
    /\ gret = NilBytes /\ gerr = NoError
    /\ vpc = "loop"
    /\ \E T \in 0..MaxVals : nodeVals = [k \in 1..T |-> k]
    /\ \E h \in ValHeights :
          vals = [BlockHeight |-> h, Validators |-> <<>>, Count |-> 0, Total |-> 0]
    /\ page = 1
    /\ lastReq = [page |-> 0, perPage |-> 0]
    /\ vcalls = 0
    /\ vhonest = TRUE
    /\ vret = NilResult /\ verr = NoError
    /\ tpc = "idle" /\ block = NoBlock /\ ti = 0 /\ txResponses = <<>>
    /\ tcalls = <<>> /\ tret = NilSlice /\ terr = NoError
    /\ hpc = "idle"
    /\ hin1 = NoInput /\ hout1 = NoOutcome /\ hin2 = NoInput /\ hout2 = NoOutcome

NextValidators == \E r \in ValidatorResponses(page, PerPage) : ValidatorsPage(r)
SpecValidators ==
    /\ InitValidators
    /\ [][NextValidators]_vars

\* the loop of Validators runs as long as the node keeps answering
FairSpecValidators == SpecValidators /\ WF_vars(NextValidators)

\* Txs(block) is called
InitTxs ==
    /\ gpc = "idle" /\ gid = 0 /\ gframes = <<>>
    /\ greqs = <<>> /\ gresps = <<>>
    /\ gret = NilBytes /\ gerr = NoError
    /\ vpc = "idle"
    /\ nodeVals = <<>>
    /\ vals = [BlockHeight |-> 0, Validators |-> <<>>, Count |-> 0, Total |-> 0]
    /\ page = 1
    /\ lastReq = [page |-> 0, perPage |-> 0]
    /\ vcalls = 0
    /\ vhonest = TRUE
    /\ vret = NilResult /\ verr = NoError
    /\ tpc = "loop"
    /\ block \in Blocks
    /\ ti = 0
    /\ txResponses = [k \in 1..Len(block.Txs) |-> NilTx]
    /\ tcalls = <<>>
    /\ tret = NilSlice /\ terr = NoError
    /\ hpc = "idle"
    /\ hin1 = NoInput /\ hout1 = NoOutcome /\ hin2 = NoInput /\ hout2 = NoOutcome

NextTxs == TxsPresentation \/ (\E found \in BOOLEAN : TxsLookup(found)) \/ TxsReturn
SpecTxs ==
    /\ InitTxs
    /\ [][NextTxs]_vars

\* HandleVPTxs(txn, block) is called
InitVP ==
    /\ gpc = "idle" /\ gid = 0 /\ gframes = <<>>
    /\ greqs = <<>> /\ gresps = <<>>
    /\ gret = NilBytes /\ gerr = NoError
    /\ vpc = "idle"
    /\ nodeVals = <<>>
    /\ vals = [BlockHeight |-> 0, Validators |-> <<>>, Count |-> 0, Total |-> 0]
    /\ page = 1
    /\ lastReq = [page |-> 0, perPage |-> 0]
    /\ vcalls = 0
    /\ vhonest = TRUE
    /\ vret = NilResult /\ verr = NoError
    /\ tpc = "idle" /\ block = NoBlock /\ ti = 0 /\ txResponses = <<>>
    /\ tcalls = <<>> /\ tret = NilSlice /\ terr = NoError
    /\ hpc = "first"
    /\ hin1 \in VPInputs
    /\ hout1 = NoOutcome /\ hin2 = NoInput /\ hout2 = NoOutcome

NextVP == HandleVPTxsFirst \/ HandleVPTxsSecond
SpecVP ==
    /\ InitVP
    /\ [][NextVP]_vars

----------------------------------------------------------------------------
(* Properties of getGenesisChunksStartingFrom, under SpecGenesis *)

\* the node has answered exactly N times, each time with totalChunks = N and
\* a valid base64 payload
ServedHonestly(N) ==
    /\ Len(gresps) = N
    /\ \A k \in 1..N :
          gresps[k].ok /\ gresps[k].TotalChunks = N /\ StdValid(gresps[k].Data)

LastResponse == gresps[Len(gresps)]

\* C1: when the node serves chunks 0..N-1, each reporting totalChunks = N and
\* each a valid payload, the call has requested 0, 1, ..., N-1 in this order,
\* each once, and returns the decoded payloads joined in index order.
ChunkReassembly ==
    \A N \in 1..MaxTotal :
        ServedHonestly(N) =>
            /\ gpc = "returned"
            /\ gerr = NoError
            /\ greqs = [k \in 1..N |-> k - 1]
            /\ gret = Bytes(Flatten([k \in 1..N |-> StdDecodeBytes(gresps[k].Data)]))

ChunkReassemblyWitness ==
    /\ ServedHonestly(3)
    /\ gpc = "returned"
    /\ gresps[1].Data # gresps[2].Data
    /\ gresps[2].Data # gresps[3].Data

\* the fetch or the decoding of the chunk requested last failed
GenesisFailed ==
    /\ gresps # <<>>
    /\ ~LastResponse.ok \/ ~StdValid(LastResponse.Data)

\* C2: whenever the reconstruction fails at a chunk or the collection at a
\* page, the call returns an error together with a nil result.
FailureAtomicity ==
    /\ GenesisFailed => (gpc = "returned" /\ gerr # NoError /\ gret = NilBytes)
    /\ (vcalls > 0 /\ ~vhonest /\ verr # NoError) => (vpc = "returned" /\ vret = NilResult)

\* C8: when the fetch of a chunk fails, first fetch included, the call
\* returns an error naming the attempted index and does not crash.
FetchFailureReported ==
    (gresps # <<>> /\ ~LastResponse.ok) =>
        (gpc = "returned" /\ gerr = GetError(greqs[Len(greqs)]) /\ gret = NilBytes)

----------------------------------------------------------------------------
(* Properties of Validators, under SpecValidators *)

\* ceil(T / PerPage)
CeilPages(T) == (T + PerPage - 1) \div PerPage

\* what Validators returns for the whole set
WholeSet ==
    Result([BlockHeight |-> vals.BlockHeight, Validators |-> nodeVals,
            Count |-> Len(nodeVals), Total |-> Len(nodeVals)])

\* C3, as stated: against a node serving its true pages of a set of T
\* validators, Validators returns after exactly ceil(T/100) requests.
PaginationCeil ==
    (vhonest /\ vpc = "returned") => vcalls = CeilPages(Len(nodeVals))

\* the requests Validators needs for a set of T validators
PagesNeeded(T) == IF T = 0 THEN 1 ELSE CeilPages(T)

\* C3, amended: against a node serving its true pages of a set of T
\* validators, Validators issues exactly ceil(T/100) requests when T >= 1 and
\* exactly one request when T = 0; the k-th request asks for page k with
\* perPage 100, and the result is the T validators, each once and in order,
\* with Count = Total = T.
PaginationTermination ==
    vhonest =>
        /\ vcalls <= PagesNeeded(Len(nodeVals))
        /\ (vpc = "returned") <=> (vcalls = PagesNeeded(Len(nodeVals)))
        /\ vcalls > 0 => lastReq = [page |-> vcalls, perPage |-> PerPage]
        /\ vpc = "returned" => (vret = WholeSet /\ verr = NoError)

PaginationWitness ==
    /\ vhonest /\ vpc = "returned"
    /\ vcalls = 3
    /\ Len(vret.v.Validators) > 2 * PerPage

\* C9: the loop of Validators stops for every sequence of answers of the
\* node, and so does the recursion of getGenesisChunksStartingFrom.
AssemblyTerminates == <>(vpc # "loop" /\ gpc # "call")

----------------------------------------------------------------------------
(* Properties of Txs, under SpecTxs *)

\* what HandleVPTxs makes of the block's first transaction
FirstOutcome == HandleVPTxs(block.Txs[1], block.Header)

\* HandleVPTxs was called on position 0 and returned an error
PresentationFailed ==
    /\ tcalls # <<>>
    /\ FirstOutcome.kind = "error"

LookedUp(pos) == \E k \in 1..Len(tcalls) : tcalls[k].fn = "Tx" /\ tcalls[k].pos = pos

RecordFor(pos) ==
    IF pos = 0 THEN FirstOutcome.tx ELSE DecodedTx(TxHashOf(block.Txs[pos + 1]))

----------------------------------------------------------------------------
(* Properties of HandleVPTxs, under SpecVP *)

BothSynthesized == hpc = "done" /\ hout1.kind = "ok" /\ hout2.kind = "ok"

FirstDisclosures == ParseCombinedFormatForPresentation(hin1.txn).Disclosures

\* a disclosure that decodes to a JSON array which has not exactly 3
\* elements or whose second element is not a string
Malformed(d) ==
    /\ d.enc
    /\ d.doc.t = "array"
    /\ Len(d.doc.v) # 3 \/ d.doc.v[2].t # "string"

WellFormed(d) ==
    /\ d.enc
    /\ d.doc.t = "array"
    /\ Len(d.doc.v) = 3
    /\ d.doc.v[2].t = "string"

\* C7: a presentation with a malformed disclosure makes HandleVPTxs return
\* an error and a nil transaction; it neither crashes nor takes the
\* disclosure into the claim set.
MalformedRejected ==
    (hpc # "first" /\ \E k \in 1..Len(FirstDisclosures) : Malformed(FirstDisclosures[k]))
        => (hout1.kind = "error" /\ hout1.tx = NilTx)

\* claim names among the disclosures ds, and the last disclosure of a name
NamesOf(ds) == {ds[k].doc.v[2].v : k \in 1..Len(ds)}
LastOf(ds, name) ==
    ds[CHOOSE k \in 1..Len(ds) :
          /\ ds[k].doc.v[2].v = name
          /\ \A j \in (k + 1)..Len(ds) : ds[j].doc.v[2].v # name]

\* the keys of a serialized claim set and the value serialized under a key
KeysOf(js) == {js[i][1] : i \in 1..Len(js)}
ValueAt(js, key) == js[CHOOSE i \in 1..Len(js) : js[i][1] = key][2]

\* C10: for well-formed disclosures the claim set has the key "@type" with
\* the value VP_TYPE, every disclosed name other than "@type" with the
\* value of the last disclosure of that name, and no other key.
ClaimSetFold ==
    (hpc # "first" /\ \A k \in 1..Len(FirstDisclosures) : WellFormed(FirstDisclosures[k])) =>
        /\ hout1.kind = "ok" <=> hin1.header.ProposerAddress # <<>>
        /\ hout1.kind = "ok" =>
              LET js == hout1.tx.Value IN
              /\ KeysOf(js) = NamesOf(FirstDisclosures) \cup {"@type"}
              /\ Cardinality(KeysOf(js)) = Len(js)
              /\ ValueAt(js, "@type") = JStr(VP_TYPE)
              /\ \A name \in NamesOf(FirstDisclosures) \ {"@type"} :
                    ValueAt(js, name) = LastOf(FirstDisclosures, name).doc.v[3]

\* two disclosures of one name with different values
ClaimSetFoldWitness ==
    /\ hpc # "first" /\ hout1.kind = "ok"
    /\ Len(FirstDisclosures) = 2
    /\ WellFormed(FirstDisclosures[1]) /\ WellFormed(FirstDisclosures[2])
    /\ FirstDisclosures[1].doc.v[2] = FirstDisclosures[2].doc.v[2]
    /\ FirstDisclosures[1].doc.v[3] # FirstDisclosures[2].doc.v[3]

====
